---- MODULE Spec2Model ----
(***************************************************************************)
(* Voxel physics of the voxelize server: Physics::iterate_body and its     *)
(* helpers (src/server/world/physics/mod.rs) and the per-tick              *)
(* PhysicsSystem::run (src/server/world/systems/physics.rs).               *)
(*                                                                         *)
(* Numbers.  The program computes in f32.  The model computes in fixed     *)
(* point: every real quantity q is the integer q * U (U = 1000), products  *)
(* and quotients are rescaled and truncated toward zero.  Vectors are      *)
(* triples indexed 1..3 for the program's axes 0..2 (x, y, z).             *)
(***************************************************************************)
EXTENDS Integers, Sequences, FiniteSets, TLC

U == 10 * 10 * 10

Axes == 1..3
Zero3 == <<0, 0, 0>>

Abs(a) == IF a >= 0 THEN a ELSE -a
Trunc(n, d) == IF n >= 0 THEN n \div d ELSE -((-n) \div d)
FloorDiv(a, b) == a \div b
CeilDiv(a, b) == -((-a) \div b)
Mul(a, b) == Trunc(a * b, U)
Div(a, b) == Trunc(a * U, b)
MaxOf(a, b) == IF a >= b THEN a ELSE b
MinOf(a, b) == IF a <= b THEN a ELSE b

RECURSIVE SqrtFrom(_, _)
SqrtFrom(n, r) == IF (r + 1) * (r + 1) > n THEN r ELSE SqrtFrom(n, r + 1)
RECURSIVE SqrtBisect(_, _, _)
SqrtBisect(n, lo, hi) ==
    IF hi - lo <= 1 THEN lo
    ELSE LET mid == (lo + hi) \div 2
         IN IF mid * mid <= n THEN SqrtBisect(n, mid, hi) ELSE SqrtBisect(n, lo, mid)
\* floor of the square root of n >= 0
ISqrt(n) == IF n < 4 THEN SqrtFrom(n, 0) ELSE SqrtBisect(n, 1, MinOf(n, 46340))

VScale(v, s) == [i \in Axes |-> Mul(v[i], s)]
VAdd(a, b) == [i \in Axes |-> a[i] + b[i]]
VSub(a, b) == [i \in Axes |-> a[i] - b[i]]
VScaleAndAdd(a, b, s) == [i \in Axes |-> a[i] + Mul(b[i], s)]
LenSq(v) == v[1] * v[1] + v[2] * v[2] + v[3] * v[3]
\* Vec3::len, in fixed point
VLen(v) == ISqrt(LenSq(v))

\* approx_equals(a, b): the tolerance is finer than one fixed-point unit
ApproxEquals(a, b) == Abs(a - b) < 1

(***************************************************************************)
(* Voxels, registry, terrain.                                              *)
(***************************************************************************)
AIR == 0
DIRT == 1
WATER == 2

\* registry.get_block_by_id(id).is_fluid
IsFluidBlock(id) == id = WATER

TerrainEmpty == "empty"
TerrainFloor == "floor"
TerrainStep == "step"
TerrainWall == "wall"
TerrainCeil == "ceil"
TerrainPool == "pool"
TerrainCorner == "corner"
TerrainLow == "low"
TerrainSill == "sill"
Terrains == {TerrainEmpty, TerrainFloor, TerrainStep, TerrainWall, TerrainCeil,
             TerrainPool, TerrainCorner, TerrainLow, TerrainSill}

\* space.get_voxel(vx, vy, vz) in terrain t; everything not named is air
GetVoxel(t, vx, vy, vz) ==
    IF t = TerrainEmpty THEN AIR
    ELSE IF vy = 0 THEN DIRT
    ELSE IF t = TerrainStep /\ vx = 2 /\ vy = 1 THEN DIRT
    ELSE IF t = TerrainSill /\ vz = 2 /\ vy = 1 THEN DIRT
    ELSE IF t = TerrainWall /\ vx = 2 /\ vy \in {1, 2} THEN DIRT
    ELSE IF t = TerrainCeil /\ ((vx = 2 /\ vy = 1) \/ vy = 3) THEN DIRT
    ELSE IF t = TerrainPool /\ vx = 2 /\ vy = 1 THEN DIRT
    ELSE IF t = TerrainPool /\ vy \in {1, 2} THEN WATER
    ELSE IF t = TerrainCorner /\ vy = 1 /\ (vx = 2 \/ vz = 2) THEN DIRT
    ELSE IF t = TerrainLow /\ ((vx = 2 /\ vy = 1) \/ vy = 2) THEN DIRT
    ELSE AIR

\* a voxel blocks motion iff it is neither air nor fluid
IsSolid(t, vx, vy, vz) ==
    LET id == GetVoxel(t, vx, vy, vz) IN id # AIR /\ ~IsFluidBlock(id)

\* fluid probe of apply_fluid_forces
TestFluid(t, vx, vy, vz) == IsFluidBlock(GetVoxel(t, vx, vy, vz))

(***************************************************************************)
(* AABB.                                                                   *)
(***************************************************************************)
MkBox(mn, mx) == [min |-> mn, max |-> mx]
Translate(box, v) == [min |-> VAdd(box.min, v), max |-> VAdd(box.max, v)]
Width(box) == box.max[1] - box.min[1]
Height(box) == box.max[2] - box.min[2]
Depth(box) == box.max[3] - box.min[3]

\* voxel layers along axis i whose interior the box meets
LayersOf(box, i) == FloorDiv(box.min[i], U) .. (CeilDiv(box.max[i], U) - 1)

\* the box's interior meets a solid voxel
OverlapsSolid(t, box) ==
    \E vx \in LayersOf(box, 1), vy \in LayersOf(box, 2), vz \in LayersOf(box, 3) :
        IsSolid(t, vx, vy, vz)

(***************************************************************************)
(* sweep(space, registry, aabb, vec, callback, translate, max_iterations). *)
(* The box advances along vec; each time its leading face on some axis     *)
(* crosses a voxel boundary (at the fraction n/den of vec) the voxels the  *)
(* face enters are tested; a solid one is an impact on that axis.          *)
(* Operators take what they use several times as parameters.               *)
(***************************************************************************)
StepDir(v) == IF v >= 0 THEN 1 ELSE -1

\* layer holding the leading edge of axis i before any crossing
LeadLayer(box, d, i) ==
    IF d[i] >= 0 THEN CeilDiv(box.max[i], U) - 1 ELSE FloorDiv(box.min[i], U)

\* distance from the leading edge to the first voxel boundary ahead
LeadDist(box, d, i) ==
    IF d[i] >= 0 THEN (CeilDiv(box.max[i], U) - 1 + 1) * U - box.max[i]
    ELSE box.min[i] - FloorDiv(box.min[i], U) * U

\* numerator of the time of crossing number k[i] on axis i (denominator |d[i]|)
CrossNum(box, d, k, i) == LeadDist(box, d, i) + k[i] * U

\* crossing on axis i comes strictly before the one on axis j
Earlier(box, d, k, i, j) ==
    CrossNum(box, d, k, i) * Abs(d[j]) < CrossNum(box, d, k, j) * Abs(d[i])

\* ties between axes are taken in the order x, z, y
AxisRank(i) == CASE i = 1 -> 0 [] i = 3 -> 1 [] OTHER -> 2

\* the axis whose next crossing comes first
NextAxis(box, d, k) ==
    CHOOSE i \in {a \in Axes : d[a] # 0} :
        \A j \in {a \in Axes : d[a] # 0} \ {i} :
            \/ Earlier(box, d, k, i, j)
            \/ (~Earlier(box, d, k, j, i) /\ AxisRank(i) < AxisRank(j))

\* layer holding the trailing edge of axis j at time n/den
TrailLayer(box, d, j, n, den) ==
    IF d[j] >= 0 THEN FloorDiv(box.min[j] * den + d[j] * n, den * U)
    ELSE CeilDiv(box.max[j] * den + d[j] * n, den * U) - 1

Span(a, b) == IF a <= b THEN a .. b ELSE b .. a

\* layers of axis j the leading face of axis i sweeps when it crosses at n/den
FaceLayers(box, d, k, i, j, n, den) ==
    IF j = i THEN {LeadLayer(box, d, j) + StepDir(d[j]) * (k[j] + 1)}
    ELSE Span(LeadLayer(box, d, j) + StepDir(d[j]) * k[j], TrailLayer(box, d, j, n, den))

\* checkCollision: a solid voxel lies in the layer the face enters
FaceCollides(t, box, d, k, i, n, den) ==
    \E vx \in FaceLayers(box, d, k, i, 1, n, den),
       vy \in FaceLayers(box, d, k, i, 2, n, den),
       vz \in FaceLayers(box, d, k, i, 3, n, den) : IsSolid(t, vx, vy, vz)

NoImpact == [hit |-> FALSE, axis |-> 0, n |-> 0, den |-> 1]

\* first impact of the box moving along d, the crossings k already passed
RECURSIVE FirstImpact(_, _, _, _)
CrossingAt(t, box, d, k, i, n, den) ==
    IF n > den THEN NoImpact
    ELSE IF FaceCollides(t, box, d, k, i, n, den)
         THEN [hit |-> TRUE, axis |-> i, n |-> n, den |-> den]
    ELSE FirstImpact(t, box, d, [k EXCEPT ![i] = @ + 1])
CrossingOn(t, box, d, k, i) ==
    CrossingAt(t, box, d, k, i, CrossNum(box, d, k, i), Abs(d[i]))
FirstImpact(t, box, d, k) ==
    IF \A a \in Axes : d[a] = 0 THEN NoImpact
    ELSE CrossingOn(t, box, d, k, NextAxis(box, d, k))

\* displacement up to an impact: exact on the impact axis (the leading edge
\* is put on the voxel boundary), truncated toward the start on the others
MovedTo(d, imp) ==
    [j \in Axes |-> IF j = imp.axis THEN StepDir(d[j]) * imp.n
                    ELSE Trunc(d[j] * imp.n, imp.den)]

\* the three callbacks the integrator passes to sweep
CbResolve == "resolve"   \* process_collisions: record resting, zero the axis, go on
CbStop == "stop"         \* sleep probe and upward probe: flag the impact, stop
CbUntilXZ == "untilxz"   \* auto-step: zero y and go on, stop on x or z

\* callback's answer: TRUE stops the sweep
CbStops(cb, axis) == cb = CbStop \/ (cb = CbUntilXZ /\ axis # 2)
\* the callback zeroes the remaining displacement on the impact axis
CbZeroes(cb, axis) == cb = CbResolve \/ (cb = CbUntilXZ /\ axis = 2)

MAX_ITERS == 10

\* sweep; st = [box, vec, resting, hit]; iters = impacts still allowed
RECURSIVE SweepLoop(_, _, _, _, _)
AfterCallback(t, st1, cb, translate, iters, axis) ==
    IF CbStops(cb, axis) \/ (\A a \in Axes : st1.vec[a] = 0) THEN st1
    ELSE SweepLoop(t, st1, cb, translate, iters - 1)
OnImpact(t, st, cb, translate, iters, axis, moved) ==
    AfterCallback(t,
        [box |-> IF translate THEN Translate(st.box, moved) ELSE st.box,
         vec |-> [a \in Axes |-> IF a = axis /\ CbZeroes(cb, axis) THEN 0
                                 ELSE st.vec[a] - moved[a]],
         resting |-> IF cb = CbResolve
                     THEN [st.resting EXCEPT ![axis] = StepDir(st.vec[axis])]
                     ELSE st.resting,
         hit |-> TRUE],
        cb, translate, iters, axis)
SweepStep(t, st, cb, translate, iters, imp) ==
    IF ~imp.hit
    THEN [st EXCEPT !.box = IF translate THEN Translate(@, st.vec) ELSE @,
                    !.vec = Zero3]
    ELSE OnImpact(t, st, cb, translate, iters, imp.axis, MovedTo(st.vec, imp))
SweepLoop(t, st, cb, translate, iters) ==
    IF iters = 0 THEN st
    ELSE SweepStep(t, st, cb, translate, iters, FirstImpact(t, st.box, st.vec, Zero3))

Sweep(t, box, vec, cb, translate) ==
    SweepLoop(t, [box |-> box, vec |-> vec, resting |-> Zero3, hit |-> FALSE],
              cb, translate, MAX_ITERS)

(***************************************************************************)
(* RigidBody and WorldConfig.                                              *)
(***************************************************************************)
NoCollision == [some |-> FALSE, j |-> Zero3]
SomeCollision(v) == [some |-> TRUE, j |-> v]

\* frames a body stays awake after mark_active
SLEEP_FRAMES == 2

DEFAULT_GRAVITY_Y == -9800
DEFAULT_MIN_BOUNCE_IMPULSE == 100
DEFAULT_AIR_DRAG == 100
DEFAULT_FLUID_DRAG == 400
DEFAULT_FLUID_DENSITY == 2000

\* WorldConfigBuilder::new().build(), the fields the physics reads
DefaultConfig ==
    [gravity |-> <<0, DEFAULT_GRAVITY_Y, 0>>,
     min_bounce_impulse |-> DEFAULT_MIN_BOUNCE_IMPULSE,
     air_drag |-> DEFAULT_AIR_DRAG,
     fluid_drag |-> DEFAULT_FLUID_DRAG,
     fluid_density |-> DEFAULT_FLUID_DENSITY,
     collision_repulsion |-> 0]

MarkActive(b) == [b EXCEPT !.sleep_frame_count = SLEEP_FRAMES]
\* RigidBody::apply_force, apply_impulse: accumulate and wake the body
ApplyForce(b, f) == [b EXCEPT !.forces = VAdd(@, f), !.sleep_frame_count = SLEEP_FRAMES]
ApplyImpulse(b, v) == [b EXCEPT !.impulses = VAdd(@, v), !.sleep_frame_count = SLEEP_FRAMES]
\* RigidBody::get_position: centre of the bottom face
GetPosition(b) ==
    <<(b.aabb.min[1] + b.aabb.max[1]) \div 2, b.aabb.min[2],
      (b.aabb.min[3] + b.aabb.max[3]) \div 2>>

(***************************************************************************)
(* Physics::iterate_body, stage by stage.                                  *)
(***************************************************************************)
\* gravity_mag_sq ~ 0
NoGravity(cfg) == ApproxEquals(0, LenSq(cfg.gravity))
LocalNoGrav(cfg, b) == NoGravity(cfg) \/ ApproxEquals(b.gravity_multiplier, 0)

\* the probe vector of is_body_asleep: gravity * (0.5 * dt * dt * gravity_multiplier)
GMult(b, dt) == Mul(Mul(Mul(U \div 2, dt), dt), b.gravity_multiplier)
SleepVec(cfg, b, dt) == [i \in Axes |-> Mul(cfg.gravity[i], GMult(b, dt))]

IsBodyAsleep(t, cfg, b, dt, no_gravity) ==
    IF b.sleep_frame_count > 0 THEN FALSE
    ELSE IF no_gravity THEN TRUE
    ELSE Sweep(t, b.aabb, SleepVec(cfg, b, dt), CbStop, FALSE).hit

\* number of fluid voxels of the column from cy up to y1
RECURSIVE FluidRun(_, _, _, _, _)
FluidRun(t, cx, cy, cz, y1) ==
    IF cy <= y1 /\ TestFluid(t, cx, cy, cz) THEN 1 + FluidRun(t, cx, cy + 1, cz, y1)
    ELSE 0

\* the bottom voxel of the probed column is fluid
BottomInFluid(t, b) ==
    TestFluid(t, FloorDiv(b.aabb.min[1], U), FloorDiv(b.aabb.min[2], U),
              FloorDiv(b.aabb.min[3], U))

\* fluid_level = y0 + submerged
FluidLevel(t, b) ==
    FloorDiv(b.aabb.min[2], U) + 1
    + FluidRun(t, FloorDiv(b.aabb.min[1], U), FloorDiv(b.aabb.min[2], U) + 1,
               FloorDiv(b.aabb.min[3], U), FloorDiv(b.aabb.max[2], U))

\* ratio_in_fluid as apply_fluid_forces computes it once the bottom voxel is fluid
FluidRatio(t, b) ==
    MinOf(U, Div(FluidLevel(t, b) * U - b.aabb.min[2], b.aabb.max[2] - b.aabb.min[2]))

\* buoyant force = gravity * fluid_density * volume displaced
Buoyancy(t, cfg, b) ==
    [i \in Axes |->
        Mul(cfg.gravity[i],
            Mul(cfg.fluid_density,
                Mul(Mul(Mul(Width(b.aabb), Height(b.aabb)), Depth(b.aabb)),
                    FluidRatio(t, b))))]

ApplyFluidForces(t, cfg, b) ==
    IF ~BottomInFluid(t, b)
    THEN [b EXCEPT !.in_fluid = FALSE, !.ratio_in_fluid = 0]
    ELSE ApplyForce(b, Buoyancy(t, cfg, b))

\* a = f/m + gravity * gravity_multiplier
Accel(cfg, b) ==
    VScaleAndAdd(VScale(b.forces, Div(U, b.mass)), cfg.gravity, b.gravity_multiplier)
\* dv = i/m + a*dt
DeltaV(cfg, b, dt) ==
    VScaleAndAdd(VScale(b.impulses, Div(U, b.mass)), Accel(cfg, b), dt)

\* scalar = (v_curr - dv_max) / v_curr, or 0
FrictionScalar(v_curr, dv_max) ==
    IF v_curr > dv_max THEN Div(v_curr - dv_max, v_curr) ELSE 0

ScaleLateral(axis, b, scalar) ==
    [b EXCEPT !.velocity = [i \in Axes |-> IF i = axis THEN @[i] ELSE Mul(@[i], scalar)]]

FrictionWith(axis, b, v_normal, v_curr) ==
    IF ApproxEquals(v_curr, 0) THEN b
    ELSE ScaleLateral(axis, b, FrictionScalar(v_curr, Abs(Mul(b.friction, v_normal))))

ApplyFrictionByAxis(axis, b, dvel) ==
    IF b.resting[axis] = 0 \/ b.resting[axis] * dvel[axis] <= 0 THEN b
    ELSE FrictionWith(axis, b, dvel[axis], VLen([b.velocity EXCEPT ![axis] = 0]))

ApplyFriction(b, dvel) ==
    IF ApproxEquals(b.friction, 0) THEN b
    ELSE ApplyFrictionByAxis(3, ApplyFrictionByAxis(2, ApplyFrictionByAxis(1, b, dvel), dvel), dvel)

AirDrag(cfg, b) == IF b.air_drag >= 0 THEN b.air_drag ELSE cfg.air_drag
FluidDrag(cfg, b) == IF b.fluid_drag >= 0 THEN b.fluid_drag ELSE cfg.fluid_drag
Drag(cfg, b) ==
    IF b.in_fluid
    THEN Mul(FluidDrag(cfg, b), U - Mul(U - b.ratio_in_fluid, U - b.ratio_in_fluid))
    ELSE AirDrag(cfg, b)

ApplyDrag(cfg, b, dt) ==
    [b EXCEPT !.velocity = VScale(@, MaxOf(U - Div(Mul(Drag(cfg, b), dt), b.mass), 0))]

\* step 8 forgetting the force accumulator
ClearedForces_Kept(b) == b.forces

\* forces and impulses after step 8
ClearedForces(b) == Zero3
ClearedImpulses(b) == Zero3
ClearAccumulators(b) == [b EXCEPT !.forces = ClearedForces(b), !.impulses = ClearedImpulses(b)]

AddVelocity(cfg, b, dt, dv) ==
    ApplyDrag(cfg, ApplyFriction([b EXCEPT !.velocity = VAdd(@, dv)], dv), dt)
Integrate(cfg, b, dt) == AddVelocity(cfg, b, dt, DeltaV(cfg, b, dt))

\* steps 3-8: the body once velocity is integrated and the accumulators cleared
Integrated(t, cfg, b, dt) ==
    ClearAccumulators(
        Integrate(cfg, ApplyFluidForces(t, cfg, [b EXCEPT !.sleep_frame_count = @ - 1]), dt))

\* x1 - x0 = v1 * dt
Displacement(b, dt) == VScale(b.velocity, dt)

ProcessCollisions(t, box, vel) == Sweep(t, box, vel, CbResolve, TRUE)

\* step 9: the body after process_collisions
SetSwept(b, r) == [b EXCEPT !.aabb = r.box, !.resting = r.resting]
Collided(t, b, dx) == SetSwept(b, ProcessCollisions(t, b.aabb, dx))

(***************************************************************************)
(* Physics::try_auto_stepping(space, registry, body, old_aabb, dx).        *)
(* Every sweep of it runs on body.aabb; old_aabb is only read.             *)
(***************************************************************************)
CUTOFF == 4

XBlocked(b) == b.resting[1] # 0
ZBlocked(b) == b.resting[3] # 0

\* the gate read the other way round: grounded bodies are turned away
AirGate_Grounded(b) == b.resting[2] < 0 /\ ~b.in_fluid

\* "in the air": the first return of try_auto_stepping
AirGate(b) == b.resting[2] >= 0 /\ ~b.in_fluid

\* ratio = |dx[0] / dx[2]| compared with cutoff and 1/cutoff
RatioAboveCutoff(dx) == Abs(dx[1]) > CUTOFF * Abs(dx[3])
RatioBelowCutoff(dx) == CUTOFF * Abs(dx[1]) < Abs(dx[3])
\* the gate turning away every singly blocked body whose blocked axis does not dominate
DirectionGate_Dominant(b, dx) ==
    ~(\/ XBlocked(b) /\ ZBlocked(b)
      \/ XBlocked(b) /\ RatioAboveCutoff(dx)
      \/ ZBlocked(b) /\ RatioBelowCutoff(dx))

DirectionGate(b, dx) ==
    (~XBlocked(b) /\ RatioAboveCutoff(dx)) \/ (~ZBlocked(b) /\ RatioBelowCutoff(dx))

\* y_dist = (y + 1.001).floor() - y
StepHeight(y) == FloorDiv(y + U + 1, U) * U - y

AutoNone == "none"            \* auto_step is off
AutoAir == "air"              \* returned at the in-the-air gate
AutoFree == "unblocked"       \* returned: neither x nor z was blocked
AutoRatio == "ratio"          \* returned at the direction gate
AutoUp == "up_obstructed"     \* returned: the upward sweep collided
AutoBail == "bail"            \* returned: no progress in the blocked direction
AutoDone == "stepped"         \* committed

\* target_pos = old_aabb.min + dx
TargetPos(old_aabb, dx) == VAdd(old_aabb.min, dx)
\* leftover = target_pos - old_aabb.min, y zeroed
Leftover(old_aabb, dx) == [VSub(TargetPos(old_aabb, dx), old_aabb.min) EXCEPT ![2] = 0]

\* "bail if no movement happened in the originally blocked direction"
Bails(b, old_aabb, dx) ==
    \/ XBlocked(b) /\ ~ApproxEquals(old_aabb.min[1], TargetPos(old_aabb, dx)[1])
    \/ ZBlocked(b) /\ ~ApproxEquals(old_aabb.min[3], TargetPos(old_aabb, dx)[3])

\* the AABB try_auto_stepping commits when it reports a step
CommittedBox(old_aabb, stepped_box) == old_aabb

\* the upward move made without testing the voxels it enters
UpSweep_Unchecked(t, box) ==
    [box |-> Translate(box, <<0, StepHeight(box.min[2]), 0>>), vec |-> Zero3,
     resting |-> Zero3, hit |-> FALSE]

\* the sweep toward the target, up to the first x/z collision
ForwardSweep(t, box, dx) == Sweep(t, box, dx, CbUntilXZ, TRUE)
\* the upward sweep, bailing on any obstruction
UpSweep(t, box) == Sweep(t, box, <<0, StepHeight(box.min[2]), 0>>, CbStop, TRUE)

AutoStepOver(t, b, old_aabb, dx, over) ==
    IF Bails(b, old_aabb, dx) THEN [body |-> [b EXCEPT !.aabb = over.box], path |-> AutoBail]
    ELSE [body |-> [b EXCEPT !.aabb = CommittedBox(old_aabb, over.box),
                             !.resting = [@ EXCEPT ![1] = over.resting[1],
                                                   ![3] = over.resting[3]],
                             !.stepped = TRUE],
          path |-> AutoDone]

AutoStepUp(t, b, old_aabb, dx, up) ==
    IF up.hit THEN [body |-> [b EXCEPT !.aabb = up.box], path |-> AutoUp]
    ELSE AutoStepOver(t, b, old_aabb, dx,
                      ProcessCollisions(t, up.box, Leftover(old_aabb, dx)))

TryAutoStepping(t, b, old_aabb, dx) ==
    IF AirGate(b) THEN [body |-> b, path |-> AutoAir]
    ELSE IF ~(XBlocked(b) \/ ZBlocked(b)) THEN [body |-> b, path |-> AutoFree]
    ELSE IF DirectionGate(b, dx) THEN [body |-> b, path |-> AutoRatio]
    ELSE AutoStepUp(t, b, old_aabb, dx, UpSweep(t, ForwardSweep(t, b.aabb, dx).box))

\* step 10 as iterate_body calls it
AutoStepped(t, b, old_aabb, dx) ==
    IF b.auto_step THEN TryAutoStepping(t, b, old_aabb, dx)
    ELSE [body |-> b, path |-> AutoNone]

\* impacts[i] = -velocity[i] on the axes newly in contact
Impacts(b, old_resting) ==
    [i \in Axes |-> IF b.resting[i] # 0 /\ old_resting[i] = 0 THEN -b.velocity[i] ELSE 0]

\* the loop over the axes stopping one short: z is never zeroed
ZeroResting_TwoAxes(b) ==
    [b EXCEPT !.velocity = [i \in Axes |-> IF i < 3 /\ b.resting[i] # 0 THEN 0 ELSE @[i]]]

\* body.velocity[i] = 0.0 on every axis in contact
ZeroResting(b) ==
    [b EXCEPT !.velocity = [i \in Axes |-> IF b.resting[i] # 0 THEN 0 ELSE @[i]]]

\* mag > threshold, mag the length of v
MagAbove(v, threshold) == LenSq(v) > threshold * threshold

\* the impulse the bounce applies after the accumulators are cleared
BounceImpulse(b, impacts) == VScale(VScale(impacts, b.mass), b.restitution)
Bounces(cfg, b, impacts) ==
    MagAbove(impacts, 1) /\ b.restitution > 0 /\ MagAbove(impacts, cfg.min_bounce_impulse)

RecordCollision(b, impacts) ==
    IF MagAbove(impacts, 1)
    THEN [b EXCEPT !.collision = SomeCollision(VScale(impacts, b.mass))]
    ELSE b

ContactWith(cfg, b, impacts) ==
    IF Bounces(cfg, b, impacts)
    THEN ApplyImpulse(RecordCollision(ZeroResting(b), impacts), BounceImpulse(b, impacts))
    ELSE RecordCollision(ZeroResting(b), impacts)

\* step 11: contact impulse and bounce
Contact(cfg, b, old_resting) == ContactWith(cfg, b, Impacts(b, old_resting))

\* the sleep check of step 12 waking every body, moving or not
Reactivate_Always(b) == MarkActive(b)

\* step 12: vsq > 1e-5
Reactivate(b) == IF LenSq(b.velocity) > 10 THEN MarkActive(b) ELSE b

ExitDt == "dt"
ExitStatic == "static"
ExitAsleep == "asleep"
ExitFull == "full"

\* the static branch zeroing the accumulators only
StaticExit_KeepsVelocity(b) == [b EXCEPT !.forces = Zero3, !.impulses = Zero3]
\* the sleep check returning after the frame counter is decremented
AsleepExit_Counted(b) == [b EXCEPT !.sleep_frame_count = @ - 1]
\* the dt check made after the flags are reset
DtExit_AfterReset(b) == [b EXCEPT !.collision = NoCollision, !.stepped = FALSE]

\* the body as the static branch returns it
StaticExit(b) == [b EXCEPT !.velocity = Zero3, !.forces = Zero3, !.impulses = Zero3]
\* the body as the sleep check returns it
AsleepExit(b) == b
\* the flags reset before the static and sleep checks
ResetFlags(b) == [b EXCEPT !.collision = NoCollision, !.stepped = FALSE]
\* the body as the dt check returns it
DtExit(b) == b

\* steps 9-12, from the integrated body b1 and its displacement
Resolve(t, cfg, b1, dx, old_resting) ==
    Reactivate(Contact(cfg, AutoStepped(t, Collided(t, b1, dx), b1.aabb, dx).body,
                       old_resting))
\* how the auto-step of the call ended
ResolvePath(t, b1, dx) == AutoStepped(t, Collided(t, b1, dx), b1.aabb, dx).path

MoveBody(t, cfg, b1, dt, old_resting) ==
    Resolve(t, cfg, b1, Displacement(b1, dt), old_resting)

\* the whole of a call that passes the early returns
FullPass(t, cfg, b, dt) == MoveBody(t, cfg, Integrated(t, cfg, b, dt), dt, b.resting)

\* the call once dt and mass have passed: the sleep check, then the rest
AwakeOrAsleep(t, cfg, b, dt) ==
    IF IsBodyAsleep(t, cfg, b, dt, LocalNoGrav(cfg, b)) THEN AsleepExit(b)
    ELSE FullPass(t, cfg, b, dt)

\* the call once dt has passed
AfterReset(t, cfg, b, dt) ==
    IF b.mass <= 0 THEN StaticExit(b) ELSE AwakeOrAsleep(t, cfg, b, dt)

IterateBody(t, cfg, b, dt) ==
    IF ApproxEquals(dt, 0) THEN DtExit(b) ELSE AfterReset(t, cfg, ResetFlags(b), dt)

\* which return of iterate_body the call takes
ExitOf(t, cfg, b, dt) ==
    IF ApproxEquals(dt, 0) THEN ExitDt
    ELSE IF b.mass <= 0 THEN ExitStatic
    ELSE IF IsBodyAsleep(t, cfg, b, dt, LocalNoGrav(cfg, b)) THEN ExitAsleep
    ELSE ExitFull

(***************************************************************************)
(* One body under repeated iterate_body calls, with forces and impulses    *)
(* applied by its owner between the calls.                                 *)
(***************************************************************************)
VARIABLES
    terrain,    \* the voxel world, fixed
    config,     \* the WorldConfig, fixed
    body,       \* the RigidBody
    call,       \* the last iterate_body call: its dt, the body before it, its return
    ticks,      \* iterate_body calls so far
    pushes      \* apply_force / apply_impulse calls so far

bodyVars == <<body, call, ticks, pushes>>

\* the state of PhysicsSystem::run, specified further down
VARIABLES
    ents,           \* entity -> its components: body, position, collisions
    engine,         \* the external engine: interactor -> translation of its rapier body
    collision_map,  \* run's local map: the collider handles inserted so far
    events,         \* the collision events Physics::step returned, not yet handled
    pc,             \* where run is
    task,           \* voxel-join entity -> how far its closure got
    cursor,         \* index of the next entity of the sequential join under way
    start,          \* ents when the tick began
    progress,       \* what the tick has done so far
    rticks          \* ticks completed

runVars == <<ents, engine, collision_map, events, pc, task, cursor, start, progress, rticks>>

\* the state of a WorldConfigBuilder in use, specified further down
VARIABLES
    builder,    \* the WorldConfigBuilder
    built,      \* what build() gave: nothing yet, a panic, a WorldConfig
    setters     \* setter calls so far

buildVars == <<builder, built, setters>>

vars == <<terrain, config, body, call, ticks, pushes,
          ents, engine, collision_map, events, pc, task, cursor, start, progress, rticks,
          builder, built, setters>>

MaxTicks == 4
MaxPushes == 1

DtSet == {0, 100}
ImpulseSet == {<<3 * U, 0, 0>>}
ForceSet == {<<0, 12 * U, 0>>}

UnitBoxAt(p) == MkBox(p, VAdd(p, <<U, U, U>>))

\* RigidBody::new(aabb) with the builder's options
NewBody(box, mass, vel, auto, rest, fric, gmul) ==
    [aabb |-> box, mass |-> mass, velocity |-> vel,
     forces |-> Zero3, impulses |-> Zero3, resting |-> Zero3,
     in_fluid |-> FALSE, ratio_in_fluid |-> 0,
     friction |-> fric, restitution |-> rest, gravity_multiplier |-> gmul,
     air_drag |-> -U, fluid_drag |-> -U,
     auto_step |-> auto, stepped |-> FALSE, collision |-> NoCollision,
     sleep_frame_count |-> SLEEP_FRAMES]

OnFloor == <<U, U, U>>
AboveFloor == <<U, U + 60, U>>

\* bodies: a walker heading +x, a walker heading mostly +z, a bouncing ball,
\* a weightless slider, a static block with pending force, impulse and velocity
Walker(p) == NewBody(UnitBoxAt(p), U, <<5 * U, 0, 0>>, TRUE, 0, U \div 2, U)
Strafer(p) == NewBody(UnitBoxAt(p), U, <<U, 0, 5 * U>>, TRUE, 0, 0, U)
Ball(p) == NewBody(UnitBoxAt(p), 2 * U, Zero3, FALSE, U \div 2, 0, U)
Slider(p) == NewBody(UnitBoxAt(p), U, Zero3, FALSE, 0, U \div 2, 0)
Block(p) ==
    [NewBody(UnitBoxAt(p), 0, <<U, 0, 0>>, FALSE, 0, 0, U)
        EXCEPT !.forces = <<0, U, 0>>, !.impulses = <<U, 0, 0>>]

\* a walker whose first displacement is 0.5 in x: (5.051 + dv) * 0.99 * 0.1
Stepper(p) == NewBody(UnitBoxAt(p), U, <<5051, 0, 0>>, TRUE, 0, U \div 2, U)
\* a weightless, dragless walker: its displacement is exactly (0.5, 0, 0)
Glider(p) ==
    [NewBody(UnitBoxAt(p), U, <<5 * U, 0, 0>>, TRUE, 0, U \div 2, 0) EXCEPT !.air_drag = 0]

\* a walker heading diagonally: |dx.x / dx.z| = 1
Diagonal(p) == NewBody(UnitBoxAt(p), U, <<3 * U, 0, 3 * U>>, TRUE, 0, 0, U)
\* a walker heading mostly along x: |dx.x / dx.z| = 5
Sidler(p) == NewBody(UnitBoxAt(p), U, <<5 * U, 0, U>>, TRUE, 0, 0, U)
\* a heavy bouncy body under weak gravity: it lands slowly, with a large impulse
Anvil(p) == NewBody(UnitBoxAt(p), 4 * U, Zero3, FALSE, U \div 2, 0, U \div 16)

ZeroGConfig == [DefaultConfig EXCEPT !.gravity = Zero3]

\* the worlds explored: <<terrain, config, body>>
Scenarios ==
    {<<t, DefaultConfig, Walker(OnFloor)>> :
        t \in {TerrainStep, TerrainWall, TerrainCeil, TerrainPool, TerrainCorner}}
    \cup {<<t, DefaultConfig, Strafer(OnFloor)>> : t \in {TerrainStep, TerrainCorner}}
    \cup {<<TerrainFloor, DefaultConfig, Ball(AboveFloor)>>,
          <<TerrainPool, DefaultConfig, Ball(OnFloor)>>,
          <<TerrainEmpty, DefaultConfig, Ball(OnFloor)>>,
          <<TerrainFloor, ZeroGConfig, Ball(OnFloor)>>,
          <<TerrainFloor, DefaultConfig, Slider(OnFloor)>>,
          <<TerrainStep, DefaultConfig, Walker(AboveFloor)>>,
          <<TerrainFloor, DefaultConfig, Block(OnFloor)>>,
          <<TerrainEmpty, ZeroGConfig, Block(OnFloor)>>,
          <<TerrainLow, DefaultConfig, Walker(OnFloor)>>,
          <<TerrainStep, DefaultConfig, Stepper(OnFloor)>>,
          <<TerrainStep, DefaultConfig, Glider(OnFloor)>>,
          <<TerrainStep, DefaultConfig, Diagonal(OnFloor)>>,
          <<TerrainSill, DefaultConfig, Diagonal(OnFloor)>>,
          <<TerrainSill, DefaultConfig, Strafer(OnFloor)>>,
          <<TerrainSill, DefaultConfig, Sidler(OnFloor)>>,
          <<TerrainFloor, DefaultConfig, Anvil(OnFloor)>>}

NoCall == [n |-> 0, dt |-> 0, exit |-> "none", path |-> AutoNone, dx |-> Zero3,
           pre |-> Block(Zero3), swept |-> Block(Zero3), touched |-> FALSE, streak |-> 0]

\* what a call leaves in the call record
CallTrace(t, b, dt, last, exit, b1) ==
    [n |-> last.n + 1, dt |-> dt, exit |-> exit,
     path |-> IF exit = ExitFull THEN ResolvePath(t, b1, Displacement(b1, dt)) ELSE AutoNone,
     dx |-> IF exit = ExitFull THEN Displacement(b1, dt) ELSE Zero3,
     pre |-> b,
     \* the body as step 9 (process_collisions) left it
     swept |-> IF exit = ExitFull THEN Collided(t, b1, Displacement(b1, dt)) ELSE b,
     touched |-> FALSE,
     \* asleep returns in a row, same dt, nothing applied in between
     streak |-> IF exit # ExitAsleep THEN 0
                ELSE IF last.exit = ExitAsleep /\ ~last.touched /\ last.dt = dt
                     THEN last.streak + 1
                ELSE 1]
CallRecord(t, cfg, b, dt, last) ==
    CallTrace(t, b, dt, last, ExitOf(t, cfg, b, dt), Integrated(t, cfg, ResetFlags(b), dt))

\* no WorldConfigBuilder is in use
BuildIdle == builder = <<>> /\ built = <<>> /\ setters = 0

\* PhysicsSystem::run is not running
RunIdle ==
    /\ ents = <<>> /\ engine = <<>> /\ collision_map = {} /\ events = <<>>
    /\ pc = "idle" /\ task = <<>> /\ cursor = 0 /\ start = <<>>
    /\ progress = <<>> /\ rticks = 0

Init ==
    /\ \E s \in Scenarios : terrain = s[1] /\ config = s[2] /\ body = s[3]
    /\ ~OverlapsSolid(terrain, body.aabb)
    /\ call = NoCall
    /\ ticks = 0
    /\ pushes = 0
    /\ RunIdle
    /\ BuildIdle

\* Physics::iterate_body(body, dt, space, registry, config)
Tick(dt) ==
    /\ ticks < MaxTicks
    /\ body' = IterateBody(terrain, config, body, dt)
    /\ call' = CallRecord(terrain, config, body, dt, call)
    /\ ticks' = ticks + 1
    /\ UNCHANGED <<terrain, config, pushes>>
    /\ UNCHANGED runVars
    /\ UNCHANGED buildVars

\* RigidBody::apply_impulse, between two calls
Push(v) ==
    /\ pushes < MaxPushes
    /\ ticks < MaxTicks
    /\ body' = ApplyImpulse(body, v)
    /\ call' = [call EXCEPT !.touched = TRUE]
    /\ pushes' = pushes + 1
    /\ UNCHANGED <<terrain, config, ticks>>
    /\ UNCHANGED runVars
    /\ UNCHANGED buildVars

\* RigidBody::apply_force, between two calls
Force(f) ==
    /\ pushes < MaxPushes
    /\ ticks < MaxTicks
    /\ body' = ApplyForce(body, f)
    /\ call' = [call EXCEPT !.touched = TRUE]
    /\ pushes' = pushes + 1
    /\ UNCHANGED <<terrain, config, ticks>>
    /\ UNCHANGED runVars
    /\ UNCHANGED buildVars

Next ==
    \/ \E dt \in DtSet : Tick(dt)
    \/ \E v \in ImpulseSet : Push(v)
    \/ \E f \in ForceSet : Force(f)

Spec == Init /\ [][Next]_vars

(***************************************************************************)
(* Properties of iterate_body.  A state is "on return" of a call when a    *)
(* call was made and nothing was applied to the body since: body is what   *)
(* the call left, call.pre what it was given.                              *)
(***************************************************************************)
OnReturn == call.n > 0 /\ ~call.touched

\* C1 as stated: on return of every call, forces and impulses are both zero.
C1_AsStated == OnReturn => body.forces = Zero3 /\ body.impulses = Zero3

\* C1: on return of a call that passes the dt check and the sleep check (the
\* static return or a full pass), forces is zero, and impulses is zero or is
\* the bounce: the collision impulse scaled by a positive restitution, which
\* the call applies after clearing the accumulators.
C1_ClearedUnlessBounce ==
    (OnReturn /\ call.exit \in {ExitStatic, ExitFull}) =>
        /\ body.forces = Zero3
        /\ \/ body.impulses = Zero3
           \/ /\ body.collision.some
              /\ body.restitution > 0
              /\ body.impulses = VScale(body.collision.j, body.restitution)

\* a full pass was given pending forces and cleared them
C1_Witness ==
    OnReturn /\ call.exit = ExitFull /\ call.pre.forces # Zero3 /\ body.forces = Zero3

\* C2: on return, every axis with resting[i] # 0 has velocity[i] = 0.
C2_RestingAxesStopped ==
    OnReturn => \A i \in Axes : body.resting[i] # 0 => body.velocity[i] = 0

\* the call integrated a velocity along z and ended in contact on z
C2_Witness ==
    OnReturn /\ call.exit = ExitFull /\ call.dx[3] # 0 /\ body.resting[3] # 0

\* C3 as stated: a static body keeps its AABB and has zero velocity on return,
\* for every dt.
C3_AsStated ==
    (OnReturn /\ call.pre.mass <= 0) =>
        body.aabb = call.pre.aabb /\ body.velocity = Zero3

\* C3: a static body keeps its AABB on return of every call, and has zero
\* velocity on return of every call whose dt is not ~ 0.
C3_StaticUnlessDtZero ==
    (OnReturn /\ call.pre.mass <= 0) =>
        /\ body.aabb = call.pre.aabb
        /\ ~ApproxEquals(call.dt, 0) => body.velocity = Zero3

\* a static body came in moving and left stopped, where it was
C3_Witness ==
    /\ OnReturn /\ call.exit = ExitStatic
    /\ call.pre.velocity # Zero3 /\ body.velocity = Zero3 /\ body.aabb = call.pre.aabb

\* C4: a call with dt = 0 leaves every field of the body as it was.
C4_DtZeroIsIdentity == (OnReturn /\ ApproxEquals(call.dt, 0)) => body = call.pre

\* a dt = 0 call on a body carrying a collision and pending accumulators
C4_Witness ==
    /\ OnReturn /\ call.exit = ExitDt
    /\ call.pre.collision.some /\ call.pre.mass > 0 /\ call.pre.velocity # Zero3

\* C5: a call that follows an asleep return, with the same dt and nothing
\* applied in between, returns asleep again and leaves aabb, velocity,
\* resting and sleep_frame_count as they were.
C5_AsleepStaysAsleep ==
    [][(/\ call.exit = ExitAsleep /\ ~call.touched
        /\ call'.n = call.n + 1 /\ call'.dt = call.dt)
       => /\ call'.exit = ExitAsleep
          /\ body'.aabb = body.aabb
          /\ body'.velocity = body.velocity
          /\ body'.resting = body.resting
          /\ body'.sleep_frame_count = body.sleep_frame_count]_vars

\* two asleep returns in a row, under gravity: the probe found the floor twice
C5_Witness ==
    OnReturn /\ call.streak >= 2 /\ ~LocalNoGrav(config, body)

\* C6: a body with auto_step whose AABB overlapped no solid voxel before the
\* call overlaps none on return, whichever way try_auto_stepping ended.
C6_AutoStepStaysFree ==
    (OnReturn /\ call.pre.auto_step /\ ~OverlapsSolid(terrain, call.pre.aabb))
        => ~OverlapsSolid(terrain, body.aabb)

\* try_auto_stepping moved the body: it raised it and carried it over the step
C6_Witness ==
    /\ OnReturn /\ call.path = AutoBail
    /\ body.aabb.min[2] > call.pre.aabb.min[2]
    /\ ~OverlapsSolid(terrain, call.pre.aabb)

\* the setting of scenario S3 at a call: auto_step, standing on solid ground,
\* a solid voxel of height 1 at max_x with free space above it, displacement
\* 0.5 in x, none in z and none upward
S3Setting ==
    /\ OnReturn /\ call.exit = ExitFull /\ call.pre.auto_step
    /\ call.dx[1] = U \div 2 /\ call.dx[3] = 0 /\ call.dx[2] <= 0
    /\ call.pre.aabb.min[2] % U = 0 /\ call.pre.aabb.max[1] % U = 0
    /\ \A vz \in LayersOf(call.pre.aabb, 3) :
        /\ IsSolid(terrain, call.pre.aabb.max[1] \div U - 1,
                   call.pre.aabb.min[2] \div U - 1, vz)
        /\ IsSolid(terrain, call.pre.aabb.max[1] \div U, call.pre.aabb.min[2] \div U, vz)
        /\ \A vy \in (call.pre.aabb.min[2] \div U + 1) .. (call.pre.aabb.min[2] \div U + 2) :
            ~IsSolid(terrain, call.pre.aabb.max[1] \div U, vy, vz)

\* C9 as stated: in the setting of S3, on return stepped is true and the AABB
\* has moved by 0.5 in x and 1.0 in y.
C9_AsStated ==
    S3Setting => body.stepped /\ body.aabb = Translate(call.pre.aabb, <<U \div 2, U, 0>>)

(***************************************************************************)
(* PhysicsSystem::run, one call per tick: the parallel voxel integration,  *)
(* the teleport of the interactors into the external engine, the engine's  *)
(* step with its events, the repulsion.                                    *)
(***************************************************************************)
Npc == "npc"            \* an entity with an interactor, not a client
Client == "client"      \* a client's entity, with an interactor
Critter == "critter"    \* an entity without interactor
Far == "far"            \* an entity with an interactor whose chunk is not ready
Stray == "stray"        \* a collider handle no entity of the join owns

\* the entities in the order the joins visit them
EntityOrder == <<Npc, Client, Critter, Far>>
Entities == {EntityOrder[i] : i \in DOMAIN EntityOrder}

IsClient(e) == e = Client                     \* has ClientFlag
HasInteractor(e) == e \in {Npc, Client, Far}  \* has InteractorComp
ChunkReady(e) == e # Far                      \* chunks.is_chunk_ready(curr_chunk.coords)
HasCollisions(e) == e # Far                   \* has CollisionsComp

\* the join without its !&client_flag term
VoxelJoin_WithClients == Entities

\* (&curr_chunks, &mut bodies, &mut positions, !&client_flag)
VoxelJoin == {e \in Entities : ~IsClient(e)}
\* (&entities, &interactors, &positions)
TeleportJoin == SelectSeq(EntityOrder, HasInteractor)
\* (&curr_chunks, &mut bodies, &interactors)
RepulseJoin == SelectSeq(EntityOrder, HasInteractor)
Interactors == {e \in Entities : HasInteractor(e)}

\* stats.delta
RunDelta == U \div 10

\* every closure handed the components of the first entity of the join
JoinedBody_Aliased(e) == Npc

\* the components the voxel join hands the closure of entity e: e's own
JoinedBody(e) == e

\* the closure of the voxel join, in two steps: iterate_body, then the position
Iterated(t, cfg, store, e) ==
    [store EXCEPT ![e].body = IterateBody(t, cfg, store[JoinedBody(e)].body, RunDelta)]
Positioned(store, e) ==
    [store EXCEPT ![e].position = GetPosition(store[JoinedBody(e)].body)]
\* the whole closure on entity e
Integrate1(t, cfg, store, e) ==
    IF ChunkReady(e) THEN Positioned(Iterated(t, cfg, store, e), e) ELSE store

\* the orders in which the entities of S can be taken one after another
Orders(S) ==
    {o \in [1 .. Cardinality(S) -> S] : \A i, j \in DOMAIN o : i # j => o[i] # o[j]}

\* serial integration: the closure run on order[i], order[i+1], ... in turn
RECURSIVE SerialRun(_, _, _, _, _)
SerialRun(t, cfg, store, order, i) ==
    IF i > Len(order) THEN store
    ELSE SerialRun(t, cfg, Integrate1(t, cfg, store, order[i]), order, i + 1)

\* what the integration is to decide: every entity's body and position
BodiesAndPositions(store) ==
    [e \in DOMAIN store |-> <<store[e].body, store[e].position>>]

\* Physics::move_rapier_body: the rapier body is put at the position
MoveRapierBody(eng, e, position) == [eng EXCEPT ![e] = position]

\* collision events of the external engine
Started(ch1, ch2) == [kind |-> "started", ch1 |-> ch1, ch2 |-> ch2]
Stopped(ch1, ch2) == [kind |-> "stopped", ch1 |-> ch1, ch2 |-> ch2]

\* what pipeline.step may do: displace the rapier bodies, emit events
NoPush == [e \in Interactors |-> Zero3]
EngineOutcomes ==
    {[push |-> NoPush, events |-> <<>>],
     [push |-> [NoPush EXCEPT ![Npc] = <<-U, 0, 0>>, ![Client] = <<U, 0, 0>>],
      events |-> <<Started(Npc, Client)>>],
     [push |-> [NoPush EXCEPT ![Npc] = <<0, U \div 2, 0>>, ![Client] = <<0, -(U \div 2), 0>>,
                              ![Far] = <<U, 0, 0>>],
      events |-> <<Stopped(Npc, Client), Started(Client, Stray), Started(Far, Client)>>]}

\* the event handler: both handles must be in collision_map, then each
\* entity's CollisionsComp gets the event with the other entity
\* if let Some(collision_comp) = collisions.get_mut(ent) { push((event, other)) }
Pushed(store, ent, kind, other) ==
    IF HasCollisions(ent)
    THEN [store EXCEPT ![ent].collisions = Append(@, <<kind, other>>)]
    ELSE store

\* the handler tagging each entity's entry with the entity itself
Handled_SelfTagged(store, cmap, ev) ==
    IF ev.ch1 \notin cmap \/ ev.ch2 \notin cmap THEN store
    ELSE Pushed(Pushed(store, ev.ch1, ev.kind, ev.ch1), ev.ch2, ev.kind, ev.ch2)

Handled(store, cmap, ev) ==
    IF ev.ch1 \notin cmap \/ ev.ch2 \notin cmap THEN store
    ELSE Pushed(Pushed(store, ev.ch1, ev.kind, ev.ch2), ev.ch2, ev.kind, ev.ch1)

\* config.collision_repulsion <= f32::EPSILON
RepulsionOff(cfg) == cfg.collision_repulsion <= 0

\* if d.abs() < 0.001 { 0.0 } else { d }
DeadBand(d) == IF Abs(d) < 1 THEN 0 ELSE d
\* the delta between the rapier translation and the voxel position
RepulseDelta(after, pos) == [i \in Axes |-> DeadBand(after[i] - pos[i])]
Normalised(d, len) == [i \in Axes |-> Div(d[i], len)]
\* "only dy movements"
StackedExactly(n) == Abs(n[1]) < 1 /\ Abs(n[3]) < 1
\* the values fastrand::i32(-10..10) as f32 / 1000.0 can take
JitterRange == (-10) .. 9
\* the direction after the bias; j = the two random draws
Biased(n, j) == IF StackedExactly(n) THEN <<j[1], n[2], j[2]>> ELSE n

\* the per-axis upper limit of the repulsion impulse
REPULSION_LIMIT == 3000
\* (d * config.collision_repulsion).min(3.0)
RepulsionImpulse(n, cfg) ==
    [i \in Axes |-> MinOf(Mul(n[i], cfg.collision_repulsion), REPULSION_LIMIT)]

NotRepulsed == [applied |-> FALSE, stacked |-> FALSE, j |-> Zero3]

\* the repulsion closure on entity e once len > 0.0001: the impulse applied
RepulseWith(store, e, rec) == [store EXCEPT ![e].body = ApplyImpulse(@, rec.j)]
RepulseRecord(cfg, n, j) ==
    [applied |-> TRUE, stacked |-> StackedExactly(n),
     j |-> RepulsionImpulse(Biased(n, j), cfg)]
\* the record of the closure on entity e, d the dead-banded delta
RepulseOf(cfg, e, d, len, j) ==
    IF ~ChunkReady(e) \/ len <= 0 THEN NotRepulsed
    ELSE RepulseRecord(cfg, Normalised(d, len), j)
RepulseAt(cfg, e, d, j) == RepulseOf(cfg, e, d, VLen(d), j)
Repulsion(cfg, eng, store, e, j) ==
    RepulseAt(cfg, e, RepulseDelta(eng[e], GetPosition(store[e].body)), j)

PcIntegrate == "integrate"
PcTeleport == "teleport"
PcStep == "step"
PcEvents == "events"
PcRepulse == "repulse"
PcDone == "done"

TaskNew == "new"
TaskIterated == "iterated"
TaskDone == "done"

MaxRunTicks == 2
RepulsionSet == {0, U, 5 * U}
JitterSet == {<<0, 0>>, <<-10, 9>>}

\* the entities as the world holds them before the first tick
Component(b) == [body |-> b, position |-> GetPosition(b), collisions |-> <<>>]
Roster ==
    [e \in Entities |->
        CASE e = Npc -> Component(Walker(OnFloor))
          [] e = Client -> Component(Ball(<<U, 2 * U, U>>))
          [] e = Critter -> Component(Strafer(<<U, U, 3 * U>>))
          [] OTHER -> Component(Ball(<<4 * U, U + 60, 4 * U>>))]

\* what a tick has done so far: teleports, engine steps, repulsion closures
\* run, impulses applied, and whether two closures of the voxel join overlapped
NoProgress ==
    [moved |-> {}, steps |-> 0, visited |-> {},
     repulsed |-> [e \in Interactors |-> NotRepulsed], overlapped |-> FALSE]

\* the single-body variables stay as they are
BodyIdle == body = Block(Zero3) /\ call = NoCall /\ ticks = 0 /\ pushes = 0

RunInit ==
    /\ terrain = TerrainStep
    /\ \E r \in RepulsionSet : config = [DefaultConfig EXCEPT !.collision_repulsion = r]
    /\ BodyIdle
    /\ BuildIdle
    /\ ents = Roster
    \* Physics::register puts each rapier body at the body's position
    /\ engine = [e \in Interactors |-> GetPosition(Roster[e].body)]
    /\ collision_map = {}
    /\ events = <<>>
    /\ pc = PcIntegrate
    /\ task = [e \in VoxelJoin |-> TaskNew]
    /\ cursor = 1
    /\ start = Roster
    /\ progress = NoProgress
    /\ rticks = 0

\* the closures spawned and not waited for
IntegrationJoined_NoBarrier == TRUE

\* par_join().for_each returns once every closure has
IntegrationJoined == \A e \in VoxelJoin : task[e] = TaskDone

\* a closure of the voxel join: the chunk check, iterate_body
IterateTask(e) ==
    /\ pc = PcIntegrate /\ task[e] = TaskNew
    /\ IF ChunkReady(e)
       THEN /\ ents' = Iterated(terrain, config, ents, e)
            /\ task' = [task EXCEPT ![e] = TaskIterated]
       ELSE /\ task' = [task EXCEPT ![e] = TaskDone]
            /\ UNCHANGED ents
    /\ progress' = [progress EXCEPT !.overlapped =
                        @ \/ \E f \in VoxelJoin \ {e} : task[f] = TaskIterated]
    /\ UNCHANGED <<terrain, config, bodyVars, buildVars, engine, collision_map, events, pc, cursor,
                   start, rticks>>

\* the rest of the closure: position.0.set(body.get_position())
WritePosition(e) ==
    /\ pc = PcIntegrate /\ task[e] = TaskIterated
    /\ ents' = Positioned(ents, e)
    /\ task' = [task EXCEPT ![e] = TaskDone]
    /\ UNCHANGED <<terrain, config, bodyVars, buildVars, engine, collision_map, events, pc, cursor,
                   start, progress, rticks>>

\* the parallel loop is over: on to the teleports
JoinIntegration ==
    /\ pc = PcIntegrate /\ IntegrationJoined
    /\ pc' = PcTeleport
    /\ cursor' = 1
    /\ UNCHANGED <<terrain, config, bodyVars, buildVars, ents, engine, collision_map, events, task,
                   start, progress, rticks>>

\* one interactor teleported: move_rapier_body, collision_map.insert
Teleport ==
    /\ pc = PcTeleport /\ cursor <= Len(TeleportJoin)
    /\ engine' = MoveRapierBody(engine, TeleportJoin[cursor], ents[TeleportJoin[cursor]].position)
    /\ collision_map' = collision_map \cup {TeleportJoin[cursor]}
    /\ progress' = [progress EXCEPT !.moved = @ \cup {TeleportJoin[cursor]}]
    /\ cursor' = cursor + 1
    /\ UNCHANGED <<terrain, config, bodyVars, buildVars, ents, events, pc, task, start, rticks>>

\* the teleport loop is over
EndTeleport ==
    /\ pc = PcTeleport /\ cursor > Len(TeleportJoin)
    /\ pc' = PcStep
    /\ UNCHANGED <<terrain, config, bodyVars, buildVars, ents, engine, collision_map, events, task,
                   cursor, start, progress, rticks>>

\* Physics::step(dt): the pipeline steps, the events are collected
StepEngine(o) ==
    /\ pc = PcStep
    /\ engine' = [e \in Interactors |-> VAdd(engine[e], o.push[e])]
    /\ events' = o.events
    /\ progress' = [progress EXCEPT !.steps = @ + 1]
    /\ pc' = PcEvents
    /\ UNCHANGED <<terrain, config, bodyVars, buildVars, ents, collision_map, task, cursor, start,
                   rticks>>

\* one event of the returned list handled
HandleEvent ==
    /\ pc = PcEvents /\ events # <<>>
    /\ ents' = Handled(ents, collision_map, Head(events))
    /\ events' = Tail(events)
    /\ UNCHANGED <<terrain, config, bodyVars, buildVars, engine, collision_map, pc, task, cursor,
                   start, progress, rticks>>

\* the events are handled: return if repulsion is off, else on to it
EndEvents ==
    /\ pc = PcEvents /\ events = <<>>
    /\ pc' = IF RepulsionOff(config) THEN PcDone ELSE PcRepulse
    /\ cursor' = 1
    /\ UNCHANGED <<terrain, config, bodyVars, buildVars, ents, engine, collision_map, events, task,
                   start, progress, rticks>>

\* the repulsion closure on one entity; j the two random draws
RepulseStep(e, rec) ==
    /\ ents' = IF rec.applied THEN RepulseWith(ents, e, rec) ELSE ents
    /\ progress' = [progress EXCEPT !.visited = @ \cup {e}, !.repulsed[e] = rec]
Repulse(j) ==
    /\ pc = PcRepulse /\ cursor <= Len(RepulseJoin)
    /\ RepulseStep(RepulseJoin[cursor],
                   Repulsion(config, engine, ents, RepulseJoin[cursor], j))
    /\ cursor' = cursor + 1
    /\ UNCHANGED <<terrain, config, bodyVars, buildVars, engine, collision_map, events, pc, task,
                   start, rticks>>

\* the repulsion loop is over: run returns
EndRepulse ==
    /\ pc = PcRepulse /\ cursor > Len(RepulseJoin)
    /\ pc' = PcDone
    /\ UNCHANGED <<terrain, config, bodyVars, buildVars, ents, engine, collision_map, events, task,
                   cursor, start, progress, rticks>>

\* the dispatcher calls run again
NextTick ==
    /\ pc = PcDone /\ rticks + 1 < MaxRunTicks
    /\ rticks' = rticks + 1
    /\ pc' = PcIntegrate
    /\ task' = [e \in VoxelJoin |-> TaskNew]
    /\ cursor' = 1
    /\ collision_map' = {}
    /\ start' = ents
    /\ progress' = NoProgress
    /\ UNCHANGED <<terrain, config, bodyVars, buildVars, ents, engine, events>>

RunNext ==
    \/ \E e \in VoxelJoin : IterateTask(e)
    \/ \E e \in VoxelJoin : WritePosition(e)
    \/ JoinIntegration
    \/ Teleport
    \/ EndTeleport
    \/ \E o \in EngineOutcomes : StepEngine(o)
    \/ HandleEvent
    \/ EndEvents
    \/ \E j \in JitterSet : Repulse(j)
    \/ EndRepulse
    \/ NextTick

SpecRun == RunInit /\ [][RunNext]_vars

(***************************************************************************)
(* Properties of PhysicsSystem::run.                                       *)
(***************************************************************************)
\* C7: once the parallel voxel integration has joined, every entity's body
\* and position are those that integrating the entities of the join one
\* after another gives, in every order, from the components the tick began
\* with.
C7_ParallelIsSerial ==
    (pc \in {PcIntegrate, PcTeleport, PcStep, PcEvents} /\ \A e \in VoxelJoin : task[e] = TaskDone)
        => \A o \in Orders(VoxelJoin) :
              BodiesAndPositions(ents)
                  = BodiesAndPositions(SerialRun(terrain, config, start, o, 1))

\* the integration joined after two closures ran overlapped, both moving a body
C7_Witness ==
    /\ pc = PcIntegrate /\ \A e \in VoxelJoin : task[e] = TaskDone
    /\ progress.overlapped
    /\ ents[Npc].body # start[Npc].body /\ ents[Critter].body # start[Critter].body
    /\ ents[Npc].position # start[Npc].position

\* C8: within a tick no interactor is teleported before every closure of the
\* voxel join is done, the engine is not stepped before every interactor is
\* teleported, no repulsion closure runs before the engine has stepped and
\* its events are handled, and the engine steps at most once, exactly once by
\* the time run returns.
C8_PhaseOrder ==
    /\ progress.moved # {} => \A e \in VoxelJoin : task[e] = TaskDone
    /\ progress.steps > 0 => progress.moved = Interactors
    /\ progress.visited # {} => progress.steps = 1 /\ events = <<>>
    /\ progress.steps <= 1
    /\ pc = PcDone => progress.steps = 1

\* run returned from a tick that integrated, teleported, stepped, handled an
\* event and applied a repulsion impulse
C8_Witness ==
    /\ pc = PcDone /\ progress.steps = 1
    /\ progress.moved = Interactors /\ progress.visited = Interactors
    /\ \E e \in Interactors : progress.repulsed[e].applied
    /\ ents[Npc].collisions # <<>>
    /\ ents[Npc].position # Roster[Npc].position

\* every axis of an applied repulsion impulse is at most 3.0 in absolute value
C10_Bounded ==
    \A e \in DOMAIN progress.repulsed :
        progress.repulsed[e].applied =>
            \A i \in Axes : Abs(progress.repulsed[e].j[i]) <= REPULSION_LIMIT
\* an impulse applied to a body stacked exactly is not zero horizontally
C10_Biased ==
    \A e \in DOMAIN progress.repulsed :
        (progress.repulsed[e].applied /\ progress.repulsed[e].stacked) =>
            (progress.repulsed[e].j[1] # 0 \/ progress.repulsed[e].j[3] # 0)

\* C10 as stated: for every delta and every collision_repulsion > epsilon,
\* each axis of the repulsion impulse applied is at most 3.0 in absolute
\* value, and the impulse applied to a body stacked exactly is non-zero
\* horizontally.
C10_AsStated == pc \in {PcRepulse, PcDone} => C10_Bounded /\ C10_Biased

(***************************************************************************)
(* WorldConfigBuilder: new(), the setters, build().                        *)
(***************************************************************************)
DEFAULT_CHUNK_SIZE == 16
DEFAULT_MAX_HEIGHT == 256
\* i32::MIN + 1 and i32::MAX - 1
DEFAULT_MIN_CHUNK_XZ == -2147483647
DEFAULT_MAX_CHUNK_XZ == 2147483646

\* WorldConfigBuilder::new()
NewBuilder ==
    [chunk_size |-> DEFAULT_CHUNK_SIZE,
     min_chunk |-> <<DEFAULT_MIN_CHUNK_XZ, DEFAULT_MIN_CHUNK_XZ>>,
     max_chunk |-> <<DEFAULT_MAX_CHUNK_XZ, DEFAULT_MAX_CHUNK_XZ>>,
     max_height |-> DEFAULT_MAX_HEIGHT,
     gravity |-> <<0, DEFAULT_GRAVITY_Y, 0>>,
     min_bounce_impulse |-> DEFAULT_MIN_BOUNCE_IMPULSE,
     air_drag |-> DEFAULT_AIR_DRAG,
     fluid_drag |-> DEFAULT_FLUID_DRAG,
     fluid_density |-> DEFAULT_FLUID_DENSITY]

\* build() looking at the first chunk axis only
BuildPanics_FirstAxis(b) == b.max_chunk[1] < b.min_chunk[1]

\* "Min/max chunk parameters do not make sense."
BuildPanics(b) == b.max_chunk[1] < b.min_chunk[1] \/ b.max_chunk[2] < b.min_chunk[2]

\* the WorldConfig build() returns, field by field
BuiltConfig(b) ==
    [chunk_size |-> b.chunk_size,
     max_height |-> b.max_height,
     min_chunk |-> b.min_chunk,
     max_chunk |-> b.max_chunk,
     air_drag |-> b.air_drag,
     fluid_drag |-> b.fluid_drag,
     fluid_density |-> b.fluid_density,
     gravity |-> b.gravity,
     min_bounce_impulse |-> b.min_bounce_impulse]

BuildNone == "none"
BuildPanicked == "panicked"
BuildReturns == "returned"
NotBuilt == [outcome |-> BuildNone, config |-> <<>>]
\* what build() gives
BuildOf(b) ==
    IF BuildPanics(b) THEN [outcome |-> BuildPanicked, config |-> <<>>]
    ELSE [outcome |-> BuildReturns, config |-> BuiltConfig(b)]

MaxSetters == 3
ChunkSizeSet == {0, 8, 32}
ChunkCoordSet == {<<-1, -1>>, <<0, 0>>, <<1, -1>>, <<2, 2>>}
HeightSet == {0, 64}

BuildInit ==
    /\ terrain = TerrainEmpty /\ config = DefaultConfig
    /\ BodyIdle
    /\ RunIdle
    /\ builder = NewBuilder
    /\ built = NotBuilt
    /\ setters = 0

\* the builder is still owned: build() has not consumed it
Setting == built.outcome = BuildNone /\ setters < MaxSetters

SetChunkSize(n) ==
    /\ Setting
    /\ builder' = [builder EXCEPT !.chunk_size = n]
    /\ setters' = setters + 1
    /\ UNCHANGED <<terrain, config, bodyVars, runVars, built>>

SetMinChunk(c) ==
    /\ Setting
    /\ builder' = [builder EXCEPT !.min_chunk = c]
    /\ setters' = setters + 1
    /\ UNCHANGED <<terrain, config, bodyVars, runVars, built>>

SetMaxChunk(c) ==
    /\ Setting
    /\ builder' = [builder EXCEPT !.max_chunk = c]
    /\ setters' = setters + 1
    /\ UNCHANGED <<terrain, config, bodyVars, runVars, built>>

SetMaxHeight(h) ==
    /\ Setting
    /\ builder' = [builder EXCEPT !.max_height = h]
    /\ setters' = setters + 1
    /\ UNCHANGED <<terrain, config, bodyVars, runVars, built>>

\* build(self): consumes the builder; the values it held stay in builder
Build ==
    /\ built.outcome = BuildNone
    /\ built' = BuildOf(builder)
    /\ UNCHANGED <<terrain, config, bodyVars, runVars, builder, setters>>

BuildNext ==
    \/ \E n \in ChunkSizeSet : SetChunkSize(n)
    \/ \E c \in ChunkCoordSet : SetMinChunk(c)
    \/ \E c \in ChunkCoordSet : SetMaxChunk(c)
    \/ \E h \in HeightSet : SetMaxHeight(h)
    \/ Build

SpecBuild == BuildInit /\ [][BuildNext]_vars

\* build() has been called
BuildCalled == built.outcome # BuildNone
\* build() returned a WorldConfig
BuildReturned == built.outcome = BuildReturns

\* C11: build() panics exactly when max_chunk < min_chunk on one of the two
\* axes; a WorldConfig it returns has max_chunk >= min_chunk on both and
\* holds every value the builder held.
C11_BuildChecksChunkRange ==
    BuildCalled =>
        /\ built.outcome = BuildPanicked
            <=> (\E i \in 1..2 : builder.max_chunk[i] < builder.min_chunk[i])
        /\ BuildReturned =>
            /\ \A i \in 1..2 : built.config.max_chunk[i] >= built.config.min_chunk[i]
            /\ \A f \in DOMAIN builder : built.config[f] = builder[f]

\* build() returned after setters narrowed the world to one chunk row
C11_Witness ==
    /\ BuildReturned /\ setters >= 2
    /\ built.config.min_chunk = <<1, -1>> /\ built.config.max_chunk[1] = 1

\* C12 as stated: build() never returns a WorldConfig whose chunk_size is 0.
C12_AsStated == BuildReturned => built.config.chunk_size # 0

\* ---------------------------------------------------------------------------
\* iterate_body: fluid state, auto-step gates, contact impulse
\* ---------------------------------------------------------------------------

\* a call that ran the whole pass, seen on its return
FullReturn == OnReturn /\ call.exit = ExitFull

\* C13: after a call of iterate_body that passes the early outs, a body whose
\* bottom voxel is fluid has in_fluid set and ratio_in_fluid equal to
\* min(1, (fluid_top - min_y) / (max_y - min_y)), which lies in (0, 1]; any
\* other body has in_fluid false and ratio_in_fluid 0.
C13_AsStated ==
    FullReturn =>
        IF BottomInFluid(terrain, call.pre)
        THEN /\ body.in_fluid
             /\ body.ratio_in_fluid = FluidRatio(terrain, call.pre)
             /\ body.ratio_in_fluid > 0
             /\ body.ratio_in_fluid <= U
        ELSE /\ ~body.in_fluid
             /\ body.ratio_in_fluid = 0

\* the call went past the two opening returns of try_auto_stepping
PastOpeningGates == call.path \notin {AutoNone, AutoAir, AutoFree}
SweptBlocked == call.swept.resting[1] # 0 \/ call.swept.resting[3] # 0

\* C14 as the spec states it: the auto-step is attempted exactly when auto_step
\* is set, the step-9 sweep was blocked on x or z, and resting[1] >= 0 or the
\* body is in fluid.
C14_AsStated ==
    FullReturn =>
        (PastOpeningGates <=>
            /\ call.swept.auto_step
            /\ SweptBlocked
            /\ (call.swept.resting[2] >= 0 \/ call.swept.in_fluid))

\* C14: iterate_body goes past the opening gates of the auto-step exactly when
\* auto_step is set, the step-9 sweep was blocked on x or z, and the body is
\* grounded (resting[1] < 0) or in fluid; the direction gate comes after.
C14_AutoStepWhenGrounded ==
    FullReturn =>
        (PastOpeningGates <=>
            /\ call.swept.auto_step
            /\ SweptBlocked
            /\ (call.swept.resting[2] < 0 \/ call.swept.in_fluid))

\* a grounded walker blocked on x went on to the sweeps of the auto-step
C14_Witness ==
    /\ FullReturn
    /\ call.path = AutoBail
    /\ call.swept.resting[1] # 0
    /\ call.swept.resting[2] < 0

\* the call went on to the sweeps of the auto-step
Proceeds == call.path \in {AutoUp, AutoBail, AutoDone}
SweptX == call.swept.resting[1] # 0
SweptZ == call.swept.resting[3] # 0
\* |dx.x / dx.z| > cutoff, and < 1 / cutoff
XDominates == Abs(call.dx[1]) > CUTOFF * Abs(call.dx[3])
ZDominates == CUTOFF * Abs(call.dx[1]) < Abs(call.dx[3])

\* C15 as the spec states it: past the opening gates, a body blocked on both x
\* and z proceeds whatever its direction; a body blocked on one axis proceeds
\* only when |dx.x / dx.z| is outside [1/4, 4] with the blocked axis dominant.
C15_AsStated ==
    (FullReturn /\ PastOpeningGates) =>
        (Proceeds <=>
            \/ SweptX /\ SweptZ
            \/ SweptX /\ ~SweptZ /\ XDominates
            \/ SweptZ /\ ~SweptX /\ ZDominates)

\* C15: past the opening gates, a body blocked on both x and z proceeds
\* whatever its direction; a body blocked on x only proceeds unless
\* |dx.x / dx.z| < 1/4, and a body blocked on z only proceeds unless
\* |dx.x / dx.z| > 4; any other call returns without stepping.
C15_UnblockedAxisMustNotDominate ==
    (FullReturn /\ PastOpeningGates) =>
        /\ Proceeds <=>
               \/ SweptX /\ SweptZ
               \/ SweptX /\ ~SweptZ /\ ~ZDominates
               \/ SweptZ /\ ~SweptX /\ ~XDominates
        /\ ~Proceeds => call.path = AutoRatio /\ body.aabb = call.swept.aabb /\ ~body.stepped

\* a body blocked on x only and heading diagonally went on to the sweeps
C15_Witness ==
    /\ FullReturn
    /\ Proceeds
    /\ SweptX /\ ~SweptZ
    /\ ~XDominates /\ ~ZDominates

\* the impact velocity of the call: -velocity on the axes newly in contact
ImpactOfCall ==
    [i \in Axes |-> IF body.resting[i] # 0 /\ call.pre.resting[i] = 0
                    THEN -call.swept.velocity[i] ELSE 0]
\* the call recorded impulse j, and bounced exactly under the stated thresholds on |j|
ImpulseThresholds(j) ==
    /\ body.collision.some <=> MagAbove(j, 1)
    /\ body.collision.some => body.collision.j = j
    /\ body.impulses =
           IF /\ MagAbove(j, 1)
              /\ call.pre.restitution > 0
              /\ MagAbove(j, config.min_bounce_impulse)
           THEN VScale(j, call.pre.restitution)
           ELSE Zero3

\* C16: with impact[i] = -velocity[i] on the axes newly in contact and
\* J = mass * impact, body.collision is set to J exactly when |J| > 0.001, and
\* the bounce impulse J * restitution is applied exactly when in addition
\* restitution > 0 and |J| > config.min_bounce_impulse, whatever the mass.
C16_AsStated == FullReturn => ImpulseThresholds(VScale(ImpactOfCall, call.pre.mass))

\* C20: when try_auto_stepping aborts (stepped stays false) the body's AABB and
\* resting vector are exactly those the step-9 process_collisions left; the
\* aborted attempt has no effect.
C20_AsStated ==
    (FullReturn /\ call.swept.auto_step /\ ~body.stepped) =>
        /\ body.aabb = call.swept.aabb
        /\ body.resting = call.swept.resting

\* ---------------------------------------------------------------------------
\* PhysicsSystem::run: events, integration, repulsion
\* ---------------------------------------------------------------------------

\* the entries one event adds to the CollisionsComp of entity e
EntriesFor(ev, e) ==
    (IF e = ev.ch1 THEN <<<<ev.kind, ev.ch2>>>> ELSE <<>>)
    \o (IF e = ev.ch2 THEN <<<<ev.kind, ev.ch1>>>> ELSE <<>>)
BothMapped(ev) == ev.ch1 \in collision_map /\ ev.ch2 \in collision_map

\* C17: each Started / Stopped event drained from the engine, when both of its
\* handles are in the tick's collider map, is appended to the CollisionsComp of
\* the first entity tagged with the second and to that of the second tagged
\* with the first, for each of the two that has a CollisionsComp; when either
\* handle is unmapped nothing is modified; the events are taken in the order
\* drained, each entry going to the end of the list.
C17_EventsRecorded ==
    [][(pc = PcEvents /\ events # <<>>) =>
          /\ events' = Tail(events)
          /\ \A e \in Entities :
                /\ ents'[e].body = ents[e].body
                /\ ents'[e].position = ents[e].position
                /\ ents'[e].collisions =
                       IF BothMapped(Head(events)) /\ HasCollisions(e)
                       THEN ents[e].collisions \o EntriesFor(Head(events), e)
                       ELSE ents[e].collisions]_vars

\* three events handled in the first tick: one recorded on both sides, one
\* with an unmapped handle dropped, one recorded on the side that has the component
C17_Witness ==
    /\ pc = PcEvents /\ events = <<>>
    /\ ents[Npc].collisions = <<<<"stopped", Client>>>>
    /\ ents[Client].collisions = <<<<"stopped", Npc>>, <<"started", Far>>>>
    /\ ents[Far].collisions = <<>>

\* the integration phase of the tick is over and no later phase has touched a body
AfterIntegration == pc \in {PcTeleport, PcStep, PcEvents}
\* what iterate_body makes of the body entity e had when the tick began
IteratedFromStart(e) == IterateBody(terrain, config, start[e].body, RunDelta)

\* C18: in the integration phase of a tick iterate_body runs for exactly the
\* entities of the join (current chunk, body, position) that carry no client
\* flag and whose chunk is ready; each of these ends the phase with its
\* position component equal to its body's position; every other entity keeps
\* the body and the position it had.
C18_IntegratesReadyNonClients ==
    AfterIntegration =>
        \A e \in Entities :
            IF ~IsClient(e) /\ ChunkReady(e)
            THEN /\ ents[e].body = IteratedFromStart(e)
                 /\ ents[e].position = GetPosition(ents[e].body)
            ELSE /\ ents[e].body = start[e].body
                 /\ ents[e].position = start[e].position

\* the phase moved the two ready non-clients and left alone a client and an
\* entity in an unready chunk, both of which iterate_body would have moved
C18_Witness ==
    /\ pc = PcTeleport
    /\ ents[Npc].body # start[Npc].body /\ ents[Npc].position # start[Npc].position
    /\ ents[Critter].body # start[Critter].body
    /\ IteratedFromStart(Client) # start[Client].body
    /\ IteratedFromStart(Far) # start[Far].body
    /\ ents[Client] = start[Client] /\ ents[Far] = start[Far]

\* the repulsion pass applied an impulse to the body of entity e this tick
Repulsed(e) == e \in DOMAIN progress.repulsed /\ progress.repulsed[e].applied

\* C19: with config.collision_repulsion <= epsilon no body receives a
\* repulsion impulse; above epsilon an impulse is applied only to bodies of
\* entities that carry no client flag and have an interactor.
C19_AsStated ==
    /\ RepulsionOff(config) => \A e \in Entities : ~Repulsed(e)
    /\ ~RepulsionOff(config) =>
          \A e \in Entities : Repulsed(e) => ~IsClient(e) /\ HasInteractor(e)

(***************************************************************************)
(* A body left to come to rest: iterate_body called tick after tick, the   *)
(* owner applying at most MaxPushes impulses.  The calls are not counted,  *)
(* so the behaviours are infinite and the state space finite.              *)
(***************************************************************************)
\* stats.delta of a tick: zero, or a step
RestDtSet == {0, 100}
RestImpulseSet == {<<0, 3 * U, 0>>, <<U, 0, 0>>}

\* a crate with friction, a bouncy crate, a heavy crate
Crate(p) == NewBody(UnitBoxAt(p), U, Zero3, FALSE, 0, U \div 2, U)
Rubber(p) == NewBody(UnitBoxAt(p), 2 * U, Zero3, FALSE, U \div 2, U \div 2, U)
Sunk(p) == NewBody(UnitBoxAt(p), 4 * U, Zero3, FALSE, 0, U \div 2, U)

RestScenarios ==
    {<<t, DefaultConfig, b>> :
        t \in {TerrainFloor, TerrainWall},
        b \in {Crate(OnFloor), Crate(AboveFloor), Rubber(OnFloor), Rubber(AboveFloor)}}
    \cup {<<TerrainPool, DefaultConfig, Sunk(OnFloor)>>}

RestInit ==
    /\ \E s \in RestScenarios : terrain = s[1] /\ config = s[2] /\ body = s[3]
    /\ ~OverlapsSolid(terrain, body.aabb)
    /\ call = NoCall
    /\ ticks = 0
    /\ pushes = 0
    /\ RunIdle
    /\ BuildIdle

\* the record of the call, its counters held so that the state space is finite
RestRecord(t, cfg, b, dt, last) ==
    [CallRecord(t, cfg, b, dt, last) EXCEPT !.n = 1, !.streak = MinOf(@, 2)]

\* Physics::iterate_body(body, dt, space, registry, config), any number of times
RestTick(dt) ==
    /\ body' = IterateBody(terrain, config, body, dt)
    /\ call' = RestRecord(terrain, config, body, dt, call)
    \* the parity of the ticks that had time pass
    /\ ticks' = IF ApproxEquals(dt, 0) THEN ticks ELSE 1 - ticks
    /\ UNCHANGED <<terrain, config, pushes>>
    /\ UNCHANGED runVars
    /\ UNCHANGED buildVars

\* RigidBody::apply_impulse, between two calls
RestPush(v) ==
    /\ pushes < MaxPushes
    /\ body' = ApplyImpulse(body, v)
    /\ call' = [call EXCEPT !.touched = TRUE]
    /\ pushes' = pushes + 1
    /\ UNCHANGED <<terrain, config, ticks>>
    /\ UNCHANGED runVars
    /\ UNCHANGED buildVars

RestNext ==
    \/ \E dt \in RestDtSet : RestTick(dt)
    \/ \E v \in RestImpulseSet : RestPush(v)

\* the world ticks on, and time passes: ticks with dt > 0 keep coming.  Such
\* a tick is always possible and always turns the parity, so the condition
\* is weak fairness of the ticks \E dt \in RestDtSet \ {0} : RestTick(dt).
TimePasses == ticks' = 1 - ticks
RestFairness == WF_ticks(TimePasses)

SpecRest == RestInit /\ [][RestNext]_vars /\ RestFairness

\* the box stands on a solid voxel: free where it is, blocked just below
OnGround(t, box) ==
    ~OverlapsSolid(t, box) /\ OverlapsSolid(t, Translate(box, <<0, -1, 0>>))

\* a dynamic body under gravity at rest on the ground, nothing pending on it
\* and nothing more to come: no impulse from its owner, no buoyant force
Settled ==
    /\ body.mass > 0
    /\ ~LocalNoGrav(config, body)
    /\ body.resting[2] < 0
    /\ OnGround(terrain, body.aabb)
    /\ body.velocity[1] = 0 /\ body.velocity[3] = 0
    /\ body.forces = Zero3 /\ body.impulses = Zero3
    /\ ~BottomInFluid(terrain, body)
    /\ pushes = MaxPushes

\* the settled body's frame counter has run out
Dormant == Settled /\ body.sleep_frame_count <= 0

\* a call on a settled body: a dt ~ 0 call changes nothing; while the counter
\* is positive the call runs in full, takes one off the counter and leaves
\* the body settled where it was; once it is <= 0 the call returns at the
\* sleep check with the body unchanged
SettledStep ==
    Settled =>
        CASE call'.exit = ExitDt -> body' = body
          [] call'.exit # ExitDt /\ body.sleep_frame_count > 0 ->
                /\ call'.exit = ExitFull
                /\ body'.sleep_frame_count = body.sleep_frame_count - 1
                /\ body'.aabb = body.aabb /\ body'.velocity = Zero3
                /\ Settled'
          [] OTHER ->
                /\ call'.exit = ExitAsleep
                /\ body'.aabb = body.aabb
                /\ body'.velocity = body.velocity
                /\ body'.resting = body.resting
                /\ body'.sleep_frame_count = body.sleep_frame_count
                /\ Settled'

\* C21: a dynamic body under gravity that rests on solid ground with no
\* lateral velocity and receives no further force or impulse is eventually
\* judged asleep: each call of iterate_body that passes the dt check takes one
\* off sleep_frame_count, which is not reset, until it is <= 0, and from then
\* on every such call returns at the sleep check with aabb, velocity and
\* resting unchanged.
C21_SettledBodySleeps ==
    /\ [][SettledStep]_vars
    /\ Settled ~> [](Dormant /\ call.exit \in {ExitAsleep, ExitDt})

\* a body that was pushed, settled and ran its counter down, judged asleep
\* twice in a row
C21_Witness ==
    /\ Dormant
    /\ OnReturn /\ call.exit = ExitAsleep /\ call.streak >= 2

====
